---- MODULE Spec2Model ----
(***************************************************************************)
(* fetchTopLanguages (src/src/fetchers/top-languages.js): the period plan, *)
(* the concurrent per-period fetches joined by Promise.all, the merge into *)
(* repoMap, the exclusion filter, the language fold, the score and the     *)
(* sort.                                                                   *)
(*                                                                         *)
(* Time is counted in seconds (the source counts milliseconds; every       *)
(* quantity of the plan is a multiple of 1000 ms).                         *)
(***************************************************************************)
EXTENDS Integers, Sequences, FiniteSets, TLC

\* ---------------------------------------------------------------- bounds
\* Number of leading periods of the plan for which the upstream holds
\* anything but an empty, well-formed contributionsCollection.
MaxActivePeriods == 2
\* size_weight and count_weight range over 0..MaxWeight.
MaxWeight == 2

\* ------------------------------------------------------- program constants
Years == 5
HalfYears == 2
oneYear == 365 * 24 * 60 * 60
sixMonths == oneYear \div 2

\* ------------------------------------------------------------ upstream data
Undefined == "<undefined>"

Edge(n, s) == [size |-> s, node |-> [name |-> n, color |-> "#" \o n]]

\* nameWithOwner = "" stands for an absent (falsy) nameWithOwner.
Repo(nwo, n, edges) ==
  [present |-> TRUE, nameWithOwner |-> nwo, name |-> n,
   languages |-> [edges |-> edges]]

NoRepo == [present |-> FALSE, nameWithOwner |-> "", name |-> "",
           languages |-> [edges |-> <<>>]]

\* An element of a ...ContributionsByRepository list.
Item(r) == [isNull |-> FALSE, repository |-> r]
NullItem == [isNull |-> TRUE, repository |-> NoRepo]

\* What retryer(contributionsFetcher, variables) yields for one period.
\* rejects: the call throws; hasData: res.data is an object;
\* errors: res.data.errors is set; hasCollection:
\* res.data.data.user.contributionsCollection is there;
\* hasLists: the three ...ContributionsByRepository lists are arrays.
Ok(c, p, i) ==
  [rejects |-> FALSE, hasData |-> TRUE, errors |-> FALSE,
   hasCollection |-> TRUE, hasLists |-> TRUE,
   commitContributionsByRepository |-> c,
   pullRequestContributionsByRepository |-> p,
   issueContributionsByRepository |-> i]

OkEmpty == Ok(<<>>, <<>>, <<>>)
Rejected == [OkEmpty EXCEPT !.rejects = TRUE]
NoBody == [OkEmpty EXCEPT !.hasData = FALSE]
WithErrors == [OkEmpty EXCEPT !.errors = TRUE]
NoCollection == [OkEmpty EXCEPT !.hasCollection = FALSE]
MissingList == [OkEmpty EXCEPT !.hasLists = FALSE]

RepoA == Repo("o/a", "a", <<Edge("X", 100)>>)
RepoA2 == Repo("o/a", "a", <<Edge("Y", 30)>>)
RepoA0 == Repo("o/a", "a", <<>>)
RepoB == Repo("o/b", "b", <<Edge("X", 50), Edge("Y", 30)>>)
RepoC == Repo("o/c", "c", <<Edge("Y", 100)>>)
RepoD == Repo("o/d", "d", <<Edge("X", 50), Edge("Y", 30)>>)
RepoN == Repo("", "n", <<Edge("Y", 100)>>)

\* Outcomes of one period's fetch, failures included.
FetchOutcomes ==
  { Rejected, NoBody, WithErrors, NoCollection, MissingList, OkEmpty,
    Ok(<<Item(RepoA)>>, <<Item(RepoA2)>>, <<>>),
    Ok(<<Item(RepoA0)>>, <<>>, <<Item(RepoB)>>),
    Ok(<<Item(NoRepo), Item(RepoN)>>, <<>>, <<Item(RepoA2)>>),
    Ok(<<NullItem>>, <<>>, <<>>) }

\* Well-formed, successful outcomes with several repositories per language.
RankOutcomes ==
  { Ok(<<Item(RepoA)>>, <<>>, <<Item(RepoB)>>),
    Ok(<<Item(RepoB)>>, <<Item(RepoD)>>, <<>>),
    Ok(<<Item(RepoC)>>, <<>>, <<>>) }

\* Pairs of exclude_repo and excludeRepositories.
ExclusionLists ==
  { <<<< >>, << >>>>, <<<< >>, <<"b">>>>, <<<<"a">>, <<"b">>>> }

Usernames == {"", Undefined, "octocat"}

\* Clock readings (seconds since the epoch).
Epoch == 20760 * 86400
Clock == {Epoch, Epoch + 1, Epoch + 86400}

\* --------------------------------------------------------- period planning
NullPeriod == [bounded |-> FALSE, at |-> 0]
toISOString(t) == [bounded |-> TRUE, at |-> t]

RECURSIVE PeriodLoopNoSkip(_, _, _, _)
PeriodLoopNoSkip(t, years, halfYear, acc) ==
  IF years >= Years THEN acc
  ELSE IF halfYear >= HalfYears THEN PeriodLoopNoSkip(t, years + 1, 0, acc)
  ELSE PeriodLoopNoSkip(t, years, halfYear + 1,
         Append(acc, toISOString(t - years * oneYear - halfYear * sixMonths)))

\* The nested for loops over years and halfYear.
RECURSIVE PeriodLoop(_, _, _, _)
PeriodLoop(t, years, halfYear, acc) ==
  IF years >= Years THEN acc
  ELSE IF halfYear >= HalfYears THEN PeriodLoop(t, years + 1, 0, acc)
  ELSE IF years = 0 /\ halfYear = 0 THEN PeriodLoop(t, years, halfYear + 1, acc)
  ELSE PeriodLoop(t, years, halfYear + 1,
         Append(acc, toISOString(t - years * oneYear - halfYear * sixMonths)))

PlanPeriods(t) == PeriodLoop(t, 0, 0, <<NullPeriod>>)

\* The variables object handed to retryer for one period.
Variables(login, fromDate) ==
  [login |-> login, hasFrom |-> fromDate.bounded, from |-> fromDate.at]

\* ------------------------------------------------------ one period's fetch
\* The body of the async callback: result list and whether the catch logged.
FetchPeriod(o) ==
  IF o.rejects THEN [items |-> <<>>, logged |-> TRUE]
  ELSE IF ~o.hasData THEN [items |-> <<>>, logged |-> TRUE]
  ELSE IF o.errors \/ ~o.hasCollection THEN [items |-> <<>>, logged |-> FALSE]
  ELSE IF ~o.hasLists THEN [items |-> <<>>, logged |-> TRUE]
  ELSE [items |-> o.commitContributionsByRepository
                  \o o.pullRequestContributionsByRepository
                  \o o.issueContributionsByRepository,
        logged |-> FALSE]

IsMissingUndefinedOnly(u) == u = Undefined
\* !username
IsMissing(u) == u \in {"", Undefined}

\* Promise.all stores the value of the i-th promise at index i.
SlotArrival(p, done) == Cardinality(done) + 1
Slot(p, done) == p

\* Promise.all resolves when every promise has resolved.
AnySettled(done, n) == done # {}
AllSettled(done, n) == done = 1..n

\* ------------------------------------------------------------ merge loop
RepoKey(repo) ==
  IF repo.nameWithOwner # "" THEN repo.nameWithOwner ELSE repo.name

HasKey(map, key) == \E i \in 1..Len(map) : map[i].key = key

MergeItemNoDedup(st, item) ==
  IF st.threw THEN st
  ELSE IF item.isNull THEN [st EXCEPT !.threw = TRUE]
  ELSE IF ~item.repository.present
          \/ Len(item.repository.languages.edges) = 0 THEN st
  ELSE IF RepoKey(item.repository) # ""
       THEN [st EXCEPT !.map = Append(@, [key |-> RepoKey(item.repository),
                                          repo |-> item.repository])]
       ELSE st

\* One iteration of the inner for loop; st.threw: item.repository of a null
\* item raised a TypeError, which ends the loop.
MergeItem(st, item) ==
  IF st.threw THEN st
  ELSE IF item.isNull THEN [st EXCEPT !.threw = TRUE]
  ELSE IF ~item.repository.present
          \/ Len(item.repository.languages.edges) = 0 THEN st
  ELSE IF RepoKey(item.repository) # ""
          /\ ~HasKey(st.map, RepoKey(item.repository))
       THEN [st EXCEPT !.map = Append(@, [key |-> RepoKey(item.repository),
                                          repo |-> item.repository])]
       ELSE st

RECURSIVE MergeItems(_, _)
MergeItems(st, items) ==
  IF items = <<>> THEN st
  ELSE MergeItems(MergeItem(st, Head(items)), Tail(items))

RECURSIVE MergeCollections(_, _)
MergeCollections(st, collections) ==
  IF collections = <<>> THEN st
  ELSE MergeCollections(MergeItems(st, Head(collections)), Tail(collections))

\* repoMap after the loop, in insertion order, as [key, repo] entries.
MergeLoop(collections) ==
  MergeCollections([map |-> <<>>, threw |-> FALSE], collections)

\* Array.from(repoMap.values())
MapValues(map) == [i \in 1..Len(map) |-> map[i].repo]

\* ------------------------------------------------------ exclusion filter
Elems(s) == {s[i] : i \in 1..Len(s)}

HideReposCallerOnly(nodes, excluded, globalExcluded) ==
  SelectSeq(nodes, LAMBDA repo : repo.name \notin Elems(excluded))

\* repoToHide built from [...exclude_repo, ...excludeRepositories], then the
\* filter on repo.name.
HideRepos(nodes, excluded, globalExcluded) ==
  SelectSeq(nodes,
            LAMBDA repo : repo.name \notin Elems(excluded \o globalExcluded))

\* ------------------------------------------------------------ language fold
\* .reduce((acc, curr) => curr.languages.edges.concat(acc), [])
RECURSIVE FlattenInto(_, _)
FlattenInto(acc, nodes) ==
  IF nodes = <<>> THEN acc
  ELSE FlattenInto(Head(nodes).languages.edges \o acc, Tail(nodes))

Flatten(nodes) ==
  FlattenInto(<<>>, SelectSeq(nodes, LAMBDA n : Len(n.languages.edges) > 0))

IndexOf(table, n) ==
  IF \E i \in 1..Len(table) : table[i].name = n
  THEN CHOOSE i \in 1..Len(table) : table[i].name = n
  ELSE 0

\* One step of the second reduce. st.acc is the accumulator object as the
\* sequence of its values in key order; st.repoCount is the counter that
\* lives outside the reduce and is shared by all languages.
FoldEdge(st, prev) ==
  LET i == IndexOf(st.acc, prev.node.name)
      langSize == IF i # 0 THEN prev.size + st.acc[i].size ELSE prev.size
      count == IF i # 0 THEN st.repoCount + 1 ELSE 1
      entry == [name |-> prev.node.name, color |-> prev.node.color,
                size |-> langSize, count |-> count]
  IN [acc |-> IF i # 0 THEN [st.acc EXCEPT ![i] = entry]
                        ELSE Append(st.acc, entry),
      repoCount |-> count]

RECURSIVE FoldEdges(_, _)
FoldEdges(st, edges) ==
  IF edges = <<>> THEN st
  ELSE FoldEdges(FoldEdge(st, Head(edges)), Tail(edges))

Fold(edges) == FoldEdges([acc |-> <<>>, repoCount |-> 0], edges).acc

\* ------------------------------------------------------------ score, sort
RECURSIVE pow(_, _)
pow(b, e) == IF e = 0 THEN 1 ELSE b * pow(b, e - 1)

ScoreSwapped(table, sw, cw) ==
  [i \in 1..Len(table) |->
     [table[i] EXCEPT !.size = pow(table[i].size, cw) * pow(table[i].count, sw)]]

\* size = Math.pow(size, size_weight) * Math.pow(count, count_weight)
Score(table, sw, cw) ==
  [i \in 1..Len(table) |->
     [table[i] EXCEPT !.size = pow(table[i].size, sw) * pow(table[i].count, cw)]]

\* Insert x behind every entry the comparator does not order after it.
SortInsert(sorted, x) ==
  LET k == Cardinality({i \in 1..Len(sorted) : sorted[i].size >= x.size})
  IN SubSeq(sorted, 1, k) \o <<x>> \o SubSeq(sorted, k + 1, Len(sorted))

RECURSIVE SortFrom(_, _)
SortFrom(sorted, rest) ==
  IF rest = <<>> THEN sorted
  ELSE SortFrom(SortInsert(sorted, Head(rest)), Tail(rest))

SortAscending(table) ==
  LET s == SortFrom(<<>>, table)
  IN [i \in 1..Len(s) |-> s[Len(s) + 1 - i]]

\* Object.keys(repoNodes).sort((a, b) => repoNodes[b].size - repoNodes[a].size)
\* (a stable sort), then the reduce that rebuilds the object in that order.
SortBySize(table) == SortFrom(<<>>, table)

\* ------------------------------------------------------------------ state
VARIABLES
  pc,                  \* "idle", "fetching", "returned", "threw"
  username, exclude_repo, size_weight, count_weight,
  excludeRepositories, \* the list from common/envs.js
  now,                 \* what Date.now() reads
  upstream,            \* what the remote answers for each period of the plan
  periods,
  requests,            \* the variables of every retryer call made
  settled,             \* indices of the fetchPromises that have resolved
  logs,                \* indices of the periods whose catch block logged
  allCollections,
  repoMap,
  repoNodes,           \* after the exclusion filter
  folded,              \* the language table after the fold
  topLangs,
  error                \* what the call threw: "none" or the error's name

vars == <<pc, username, exclude_repo, size_weight, count_weight,
          excludeRepositories, now, upstream, periods, requests, settled,
          logs, allCollections, repoMap, repoNodes, folded, topLangs, error>>

NumPeriods == Len(PlanPeriods(0))

\* Upstream answers: anything in the first MaxActivePeriods periods, an
\* empty collection in the older windows.
Upstreams(outcomes) ==
  {[p \in 1..NumPeriods |-> IF p <= MaxActivePeriods THEN a[p] ELSE OkEmpty] :
     a \in [1..MaxActivePeriods -> outcomes]}

InitLocals ==
  /\ pc = "idle"
  /\ periods = <<>>
  /\ requests = <<>>
  /\ settled = {}
  /\ logs = {}
  /\ allCollections = <<>>
  /\ repoMap = <<>>
  /\ repoNodes = <<>>
  /\ folded = <<>>
  /\ topLangs = <<>>
  /\ error = "none"

\* Calls with the default arguments against an upstream that may fail.
Init ==
  /\ InitLocals
  /\ username \in Usernames
  /\ exclude_repo = <<>>
  /\ excludeRepositories = <<>>
  /\ size_weight = 1
  /\ count_weight = 0
  /\ now = Epoch
  /\ upstream \in Upstreams(FetchOutcomes)

\* Calls with any weights and exclusion lists against a healthy upstream.
InitRank ==
  /\ InitLocals
  /\ username \in {"", "octocat"}
  /\ \E ex \in ExclusionLists :
       exclude_repo = ex[1] /\ excludeRepositories = ex[2]
  /\ size_weight \in 0..MaxWeight
  /\ count_weight \in 0..MaxWeight
  /\ now = Epoch
  /\ upstream \in Upstreams(RankOutcomes)

\* Calls at different clock readings.
InitPlan ==
  /\ InitLocals
  /\ username \in Usernames
  /\ exclude_repo = <<>>
  /\ excludeRepositories = <<>>
  /\ size_weight = 1
  /\ count_weight = 0
  /\ now \in Clock
  /\ upstream \in Upstreams({OkEmpty, Rejected})

\* Calls against an upstream whose fetches fail, succeed or answer with a
\* null item.
InitJoin ==
  /\ InitLocals
  /\ username \in {"", "octocat"}
  /\ exclude_repo = <<>>
  /\ excludeRepositories = <<>>
  /\ size_weight = 1
  /\ count_weight = 0
  /\ now = Epoch
  /\ upstream \in Upstreams({Rejected,
                             Ok(<<Item(RepoA)>>, <<Item(RepoA2)>>, <<>>),
                             Ok(<<NullItem>>, <<>>, <<>>)})

\* ---------------------------------------------------------------- actions
\* fetchTopLanguages up to its await: the username check, the period plan
\* and the start of every period's fetch.
Call ==
  /\ pc = "idle"
  /\ IF IsMissing(username)
     THEN /\ pc' = "threw"
          /\ error' = "MissingParamError"
          /\ UNCHANGED <<periods, requests, allCollections>>
     ELSE /\ pc' = "fetching"
          /\ periods' = PlanPeriods(now)
          /\ requests' = [i \in 1..Len(PlanPeriods(now)) |->
                            Variables(username, PlanPeriods(now)[i])]
          /\ allCollections' = [i \in 1..Len(PlanPeriods(now)) |-> <<>>]
          /\ UNCHANGED error
  /\ UNCHANGED <<username, exclude_repo, size_weight, count_weight,
                 excludeRepositories, now, upstream, settled, logs, repoMap,
                 repoNodes, folded, topLangs>>

\* The fetch of period p comes back and its promise resolves.
Settle(p) ==
  /\ pc = "fetching"
  /\ p \in 1..Len(periods)
  /\ p \notin settled
  /\ settled' = settled \cup {p}
  /\ allCollections' =
       [allCollections EXCEPT ![Slot(p, settled)] = FetchPeriod(upstream[p]).items]
  /\ logs' = IF FetchPeriod(upstream[p]).logged THEN logs \cup {p} ELSE logs
  /\ UNCHANGED <<pc, username, exclude_repo, size_weight, count_weight,
                 excludeRepositories, now, upstream, periods, requests,
                 repoMap, repoNodes, folded, topLangs, error>>

\* Promise.all resolves; the rest of fetchTopLanguages runs to its end.
Join ==
  /\ pc = "fetching"
  /\ AllSettled(settled, Len(periods))
  /\ LET merged == MergeLoop(allCollections)
         nodes == HideRepos(MapValues(merged.map), exclude_repo,
                            excludeRepositories)
         table == Fold(Flatten(nodes))
     IN /\ repoMap' = merged.map
        /\ IF merged.threw
           THEN /\ pc' = "threw"
                /\ error' = "TypeError"
                /\ UNCHANGED <<repoNodes, folded, topLangs>>
           ELSE /\ pc' = "returned"
                /\ repoNodes' = nodes
                /\ folded' = table
                /\ topLangs' = SortBySize(Score(table, size_weight, count_weight))
                /\ UNCHANGED error
  /\ UNCHANGED <<username, exclude_repo, size_weight, count_weight,
                 excludeRepositories, now, upstream, periods, requests,
                 settled, logs, allCollections>>

Next == Call \/ (\E p \in 1..NumPeriods : Settle(p)) \/ Join

Spec == Init /\ [][Next]_vars
SpecRank == InitRank /\ [][Next]_vars
SpecPlan == InitPlan /\ [][Next]_vars
\* Every fetch eventually completes or fails (the retryer gives up after its
\* retries), and a resolved Promise.all resumes the function.
FairSpec == InitJoin /\ [][Next]_vars
            /\ WF_vars(\E p \in 1..NumPeriods : Settle(p)) /\ WF_vars(Join)

\* ------------------------------------------------------ claims: vocabulary
Returned == pc = "returned"

\* What period p's fetch hands to Promise.all, read off the upstream answer.
Delivered(p) ==
  IF /\ ~upstream[p].rejects /\ upstream[p].hasData /\ ~upstream[p].errors
     /\ upstream[p].hasCollection /\ upstream[p].hasLists
  THEN upstream[p].commitContributionsByRepository
       \o upstream[p].pullRequestContributionsByRepository
       \o upstream[p].issueContributionsByRepository
  ELSE <<>>

RECURSIVE Concat(_)
Concat(lists) == IF lists = <<>> THEN <<>> ELSE Head(lists) \o Concat(Tail(lists))

\* Every item of every period, in plan order.
PlanItems == Concat([p \in 1..Len(periods) |-> Delivered(p)])

Eligible(item) ==
  /\ ~item.isNull
  /\ item.repository.present
  /\ Len(item.repository.languages.edges) > 0

KeyOf(item) ==
  IF item.repository.nameWithOwner # "" THEN item.repository.nameWithOwner
  ELSE item.repository.name

Excluded == Elems(exclude_repo) \cup Elems(excludeRepositories)

\* The deduplicated repositories whose name is not excluded.
KeptRepos == SelectSeq(MapValues(repoMap), LAMBDA r : r.name \notin Excluded)

RECURSIVE EdgeBytes(_, _)
EdgeBytes(lang, edges) ==
  IF edges = <<>> THEN 0
  ELSE (IF Head(edges).node.name = lang THEN Head(edges).size ELSE 0)
       + EdgeBytes(lang, Tail(edges))

RECURSIVE LangBytes(_, _)
LangBytes(lang, repos) ==
  IF repos = <<>> THEN 0
  ELSE EdgeBytes(lang, Head(repos).languages.edges) + LangBytes(lang, Tail(repos))

HasLang(repo, lang) ==
  \E i \in 1..Len(repo.languages.edges) : repo.languages.edges[i].node.name = lang

LangRepos(lang, repos) == Cardinality({i \in 1..Len(repos) : HasLang(repos[i], lang)})

LangsOf(repos) ==
  UNION {{repos[i].languages.edges[j].node.name :
            j \in 1..Len(repos[i].languages.edges)} : i \in 1..Len(repos)}

Names(table) == {table[i].name : i \in 1..Len(table)}

\* The mapping a call returns for the given Promise.all result and exclusions.
Outcome(collections, excluded, globalExcluded) ==
  SortBySize(Score(Fold(Flatten(HideRepos(MapValues(MergeLoop(collections).map),
                                          excluded, globalExcluded))),
                   size_weight, count_weight))

\* ---------------------------------------------------------------- claims
\* C1: a call with an empty or absent username throws MissingParamError
\* naming username, and no period fetch is issued in that invocation.
C1_MissingUsername ==
  (username \in {"", Undefined} /\ pc # "idle")
    => /\ pc = "threw"
       /\ error = "MissingParamError"
       /\ requests = <<>>
       /\ settled = {}
       /\ topLangs = <<>>

C1_Witness == username = "" /\ pc = "threw" /\ requests = <<>>

\* C2: with a non-empty username and any per-period outcomes (success,
\* thrown error, errors in the response, malformed payload, no
\* contributionsCollection) the call surfaces no error and returns the
\* mapping it would return had every failed period yielded an empty list.
C2_NeverSurfaces ==
  (username = "octocat" /\ pc \in {"returned", "threw"})
    => /\ pc = "returned"
       /\ error = "none"
       /\ topLangs = Outcome([p \in 1..Len(periods) |->
                                SelectSeq(Delivered(p), LAMBDA it : ~it.isNull)],
                             exclude_repo, excludeRepositories)

C2_AbsorbedWhenWellFormed ==
  (username = "octocat" /\ Returned)
    => topLangs = Outcome([p \in 1..Len(periods) |-> Delivered(p)],
                          exclude_repo, excludeRepositories)

\* C3: whatever the weights, a repository whose name is in exclude_repo or
\* in excludeRepositories is not among the repositories that are folded;
\* the languages of the output are those of the other repositories, their
\* byte totals are sums over the other repositories alone, and the mapping
\* is the one the call returns when the excluded repositories are taken out
\* of every period's list beforehand.
C3_ExcludedNeverAppear ==
  Returned =>
    /\ \A i \in 1..Len(repoNodes) : repoNodes[i].name \notin Excluded
    /\ Names(topLangs) = LangsOf(KeptRepos)
    /\ \A i \in 1..Len(folded) :
         folded[i].size = LangBytes(folded[i].name, KeptRepos)
    /\ topLangs =
         Outcome([p \in 1..Len(allCollections) |->
                    SelectSeq(allCollections[p],
                              LAMBDA it : it.repository.name \notin Excluded)],
                 <<>>, <<>>)

\* An excluded repository carries X, X is not in the output, Y is.
C3_Witness ==
  /\ Returned
  /\ \E i \in 1..Len(repoMap) :
       repoMap[i].repo.name \in Excluded /\ HasLang(repoMap[i].repo, "X")
  /\ Names(topLangs) = {"Y"}

\* C4: with size_weight = 1 and count_weight = 0 every size of the output
\* is the sum of the raw byte sizes of that language over the deduplicated,
\* non-excluded repositories, and the output is in descending order of that
\* sum.
C4_DefaultWeights ==
  (Returned /\ size_weight = 1 /\ count_weight = 0) =>
    /\ Names(topLangs) = LangsOf(KeptRepos)
    /\ \A i \in 1..Len(topLangs) :
         topLangs[i].size = LangBytes(topLangs[i].name, KeptRepos)
    /\ \A i, j \in 1..Len(topLangs) :
         i < j => LangBytes(topLangs[i].name, KeptRepos)
                    >= LangBytes(topLangs[j].name, KeptRepos)

\* Repo A {X:100} and repo B {X:50, Y:30}: X (150) before Y (30).
C4_Witness ==
  /\ Returned /\ size_weight = 1 /\ count_weight = 0
  /\ KeptRepos = <<RepoA, RepoB>>
  /\ Len(topLangs) = 2
  /\ topLangs[1].name = "X" /\ topLangs[1].size = 150
  /\ topLangs[2].name = "Y" /\ topLangs[2].size = 30

\* The score of the folded entry of a language.
ScoreOf(lang) ==
  LET e == folded[CHOOSE i \in 1..Len(folded) : folded[i].name = lang]
  IN pow(e.size, size_weight) * pow(e.count, count_weight)

\* C6 as stated: every entry's score is greater than the next entry's.
C6_StrictlyDescending ==
  Returned =>
    \A i \in 1..Len(topLangs) - 1 :
      ScoreOf(topLangs[i].name) > ScoreOf(topLangs[i + 1].name)

\* C6, amended: the returned keys are in non-increasing order of the score
\* size^size_weight * count^count_weight; no entry's score is less than the
\* next entry's, and equal scores may be adjacent.
C6_NonIncreasing ==
  Returned =>
    /\ Names(topLangs) = Names(folded)
    /\ \A i \in 1..Len(topLangs) : topLangs[i].size = ScoreOf(topLangs[i].name)
    /\ \A i \in 1..Len(topLangs) - 1 :
         ScoreOf(topLangs[i].name) >= ScoreOf(topLangs[i + 1].name)

\* The sort has moved an entry: the fold met Y first, X scores higher.
C6_Witness ==
  /\ Returned
  /\ Len(topLangs) = 2
  /\ folded[1].name = "Y" /\ topLangs[1].name = "X"
  /\ topLangs[1].size > topLangs[2].size

\* C10: the count of every language is the number of deduplicated,
\* non-excluded repositories with an edge for it, whatever the order of the
\* flattened edges.
C10_CountIsRepoCount ==
  Returned =>
    \A i \in 1..Len(topLangs) :
      /\ topLangs[i].count = LangRepos(topLangs[i].name, KeptRepos)
      /\ topLangs[i].count >= 1

\* The keys of all repositories that occur in some period's list.
AllKeys ==
  {KeyOf(PlanItems[i]) :
     i \in {j \in 1..Len(PlanItems) :
              ~PlanItems[j].isNull /\ PlanItems[j].repository.present}}

\* The keys of the repositories that occur with at least one language edge.
EligibleKeys ==
  {KeyOf(PlanItems[i]) : i \in {j \in 1..Len(PlanItems) : Eligible(PlanItems[j])}}

\* C5 as stated: after the merge loop repoMap holds as many repositories as
\* there are distinct keys in the union of the periods' lists.
C5_CountIsDistinctKeys == Returned => Len(repoMap) = Cardinality(AllKeys)

\* C5, amended: after the merge loop repoMap holds as many repositories as
\* there are distinct keys among the listed repositories that have at least
\* one language edge (a repository listed only without language edges is
\* not counted), each key once, however many periods list it.
C5_CountIsDistinctEligibleKeys ==
  Returned =>
    /\ Len(repoMap) = Cardinality(EligibleKeys)
    /\ {repoMap[i].key : i \in 1..Len(repoMap)} = EligibleKeys

\* Two periods list the same repositories: fewer entries than items.
C5_Witness ==
  /\ Returned
  /\ Len(repoMap) = 2
  /\ Cardinality({j \in 1..Len(PlanItems) : Eligible(PlanItems[j])}) > 2

\* The first item of the plan-ordered lists that satisfies Q and has key k.
FirstWith(k, Q(_)) ==
  PlanItems[CHOOSE i \in 1..Len(PlanItems) :
              /\ Q(PlanItems[i]) /\ KeyOf(PlanItems[i]) = k
              /\ \A j \in 1..(i - 1) :
                   ~(Q(PlanItems[j]) /\ KeyOf(PlanItems[j]) = k)]

Listed(item) == ~item.isNull /\ item.repository.present

\* C7 as stated: the record kept for a key is its first occurrence in plan
\* order.
C7_FirstOccurrence ==
  Returned =>
    \A i \in 1..Len(repoMap) :
      repoMap[i].repo = FirstWith(repoMap[i].key, Listed).repository

\* C7, amended: in whatever order the fetches complete, Promise.all holds
\* each period's list at that period's place in the plan, and the record
\* kept for a key is its first occurrence in plan order that has at least
\* one language edge (all-time first, then the windows as planned; commit,
\* pull-request, issue within a period); later ones are dropped even with
\* other language edges, so the returned mapping is a function of the
\* periods' answers alone.
C7_FirstEligibleOccurrence ==
  /\ \A p \in 1..Len(allCollections) :
       allCollections[p] = IF p \in settled THEN Delivered(p) ELSE <<>>
  /\ Returned =>
       /\ \A i \in 1..Len(repoMap) :
            repoMap[i].repo = FirstWith(repoMap[i].key, Eligible).repository
       /\ {repoMap[i].key : i \in 1..Len(repoMap)} = EligibleKeys

\* The all-time period and the first window carry o/a with different edges.
C7_Witness ==
  /\ Returned
  /\ \E i \in 1..Len(Delivered(1)), j \in 1..Len(Delivered(2)) :
       /\ Eligible(Delivered(1)[i]) /\ Eligible(Delivered(2)[j])
       /\ KeyOf(Delivered(1)[i]) = "o/a" /\ KeyOf(Delivered(2)[j]) = "o/a"
       /\ Delivered(1)[i] # Delivered(2)[j]
  /\ \E i \in 1..Len(repoMap) : repoMap[i].key = "o/a"

\* C8: nothing is merged before every period's fetch has completed or
\* failed, and, every fetch completing or failing, the join completes and
\* the call returns, failing periods included.
C8_JoinThenReturn ==
  /\ [](((pc = "returned") \/ error = "TypeError" \/ repoMap # <<>>)
          => settled = 1..Len(periods))
  /\ ((pc = "fetching") ~> (pc = "returned"))

\* What holds of C8: nothing is merged before every period's fetch has
\* completed or failed, and once the fetches are under way the call comes
\* to its end: it returns, or the merge loop throws on a null item (C2).
C8_JoinAll ==
  /\ [](((pc = "returned") \/ error = "TypeError" \/ repoMap # <<>>)
          => settled = 1..Len(periods))
  /\ ((pc = "fetching") ~> (pc \in {"returned", "threw"}))

\* A call has returned repositories although the all-time fetch failed.
C8_Witness ==
  /\ Returned
  /\ repoMap # <<>>
  /\ upstream[1].rejects
  /\ logs = {1}

\* C9 as stated: the all-time period, then 10 windows, one fetch each.
C9_TenWindows ==
  (pc = "fetching") =>
    /\ Len(periods) = 1 + 10
    /\ periods[1] = NullPeriod
    /\ Len(requests) = Len(periods)

\* C9, amended: the plan is the all-time period followed by 9 windows whose
\* starts are 6 months apart, from 6 months to 4.5 years before the clock
\* reading; one fetch is issued per planned period, with that period's
\* start as from and the username as login.
C9_NineWindows ==
  (pc \in {"fetching", "returned"}) =>
    /\ Len(periods) = 1 + 9
    /\ periods[1] = NullPeriod
    /\ \A i \in 2..Len(periods) :
         /\ periods[i].bounded
         /\ periods[i].at = now - (i - 1) * ((365 * 24 * 60 * 60) \div 2)
    /\ Len(requests) = Len(periods)
    /\ \A i \in 1..Len(periods) :
         requests[i] = [login |-> username, hasFrom |-> periods[i].bounded,
                        from |-> periods[i].at]

C9_Witness ==
  /\ pc = "fetching"
  /\ now = Epoch + 86400
  /\ Len(requests) = 10
  /\ ~requests[1].hasFrom
  /\ requests[10].from = now - 9 * sixMonths
====
